---- MODULE Spec2Model ----
(***************************************************************************)
(* NEruSt-JG: the 6502 CPU core (src/src/cpu.rs), the memory bus           *)
(* (src/src/bus.rs) and the picture-unit register shim (src/src/ppu.rs).   *)
(*                                                                         *)
(* Byte arrays are kept sparsely: a function from the indices that hold a  *)
(* nonzero byte to that byte.  Every array of the program starts all zero, *)
(* so an index outside the DOMAIN holds 0; the array's length is kept as a *)
(* separate number and every index is checked against it, as Rust does.    *)
(* A Vec<u8> is the record of its length and its nonzero bytes.            *)
(* A Rust panic ends the object's life: ctl = "panicked" is terminal.      *)
(***************************************************************************)
EXTENDS Integers, Sequences, FiniteSets, TLC

VARIABLES
    register_a,       \* CPU.register_a : u8
    register_x,       \* CPU.register_x : u8
    register_y,       \* CPU.register_y : u8
    status,           \* CPU.status : u8
    program_counter,  \* CPU.program_counter : u16
    memory,           \* CPU.memory : [u8; 0xFFFF], sparse
    ctl,              \* "idle" (no call active), "running" (inside run), "panicked"
    program,          \* the Vec<u8> passed to the most recent load, sparse
    history,          \* names of the most recent API calls, oldest first
    loads,            \* number of load calls so far
    runs,             \* number of run calls so far
    call,             \* harness of a single routine applied to drawn inputs
    cpu_vram,         \* Bus.cpu_vram : [u8; 2048], sparse
    prg_rom,          \* Bus.prg_rom : [u8; 0x8000], sparse
    bus_ctl,          \* "ok" or "panicked"
    bus_last,         \* the most recent Bus call and what it returned
    bus_calls,        \* number of Bus calls so far
    chr_rom,          \* PPU.chr_rom : Vec<u8>, sparse
    pallete_table,    \* PPU.pallete_table : [u8; 32], sparse
    vram,             \* PPU.vram : [u8; 2048], sparse
    mirroring,        \* PPU.mirroring : Mirroring
    addr_reg,         \* PPU.addr_reg : AddressRegister, or an AddressRegister alone
    control_reg,      \* PPU.control_reg : ControlRegister, its bits
    internal_data_buffer, \* PPU.internal_data_buffer : u8
    ppu_ctl,          \* "ok" or "panicked"
    ppu_last,         \* the most recent PPU call, what it returned, and the most
                      \* recent write through the data port
    ppu_calls,        \* number of PPU or AddressRegister calls of the behaviour
    latch_log         \* the AddressRegister calls since new or reset_latch, oldest first

cpu_vars == <<register_a, register_x, register_y, status, program_counter, memory, ctl>>
ghost_vars == <<program, history, loads, runs>>
bus_vars == <<cpu_vram, prg_rom, bus_ctl, bus_last, bus_calls>>
ppu_vars ==
    <<chr_rom, pallete_table, vram, mirroring, addr_reg, control_reg,
      internal_data_buffer, ppu_ctl, ppu_last, ppu_calls, latch_log>>
vars == <<cpu_vars, ghost_vars, call, bus_vars, ppu_vars>>

(***************************************************************************)
(* Bounds of the model.                                                    *)
(***************************************************************************)
\* load / load_and_run / interpret calls per behaviour
MaxLoads == 1
\* run calls per behaviour
MaxRuns == 2
\* Bus calls per behaviour
MaxBusCalls == 2
\* PPU calls, or AddressRegister calls, per behaviour
MaxPpuCalls == 4

(***************************************************************************)
(* Fixed-width arithmetic.                                                 *)
(***************************************************************************)
Byte == 0..255

RECURSIVE BitAndN(_, _, _)
BitAndN(a, b, n) ==
    IF n = 0 THEN 0
    ELSE ((a % 2) * (b % 2)) + 2 * BitAndN(a \div 2, b \div 2, n - 1)

RECURSIVE BitOrN(_, _, _)
BitOrN(a, b, n) ==
    IF n = 0 THEN 0
    ELSE (IF (a % 2) + (b % 2) > 0 THEN 1 ELSE 0) + 2 * BitOrN(a \div 2, b \div 2, n - 1)

BitAnd(a, b) == BitAndN(a, b, 16)
BitOr(a, b) == BitOrN(a, b, 16)
Bit(n, k) == (n \div (2 ^ k)) % 2

\* mutant: the sum is taken in 16 bits and is not wrapped to a byte
WrapAdd8_widened(a, b) == a + b

WrapAdd8(a, b) == (a + b) % 256        \* u8::wrapping_add
WrapAdd16(a, b) == (a + b) % 65536     \* u16::wrapping_add

(***************************************************************************)
(* Sparse byte arrays.                                                     *)
(***************************************************************************)
Zeroed == [i \in {} |-> 0]
Get(arr, i) == IF i \in DOMAIN arr THEN arr[i] ELSE 0
Put(arr, i, v) ==
    IF v = 0 THEN [j \in DOMAIN arr \ {i} |-> arr[j]]
    ELSE [j \in DOMAIN arr \cup {i} |-> IF j = i THEN v ELSE arr[j]]

\* the Vec<u8> holding the bytes of the sequence s
Vec(s) == [len |-> Len(s), at |-> [i \in {k \in 0..(Len(s) - 1) : s[k + 1] # 0} |-> s[i + 1]]]
EmptyVec == [len |-> 0, at |-> Zeroed]

(***************************************************************************)
(* The CPU (src/src/cpu.rs).  Routines are operators from a CPU record to  *)
(* the CPU record they leave; Panic(c) is the record of a call that        *)
(* panicked part-way, keeping what it had already written.                 *)
(***************************************************************************)
\* memory: [u8; 0xFFFF]: 65535 cells, indices 0x0000..0xFFFE
MemLen == 65535
ProgramBase == \h8000
ResetVector == \hFFFC
\* the 32 KiB window 0x8000-0xFFFF (Bus.prg_rom)
RomCapacity == 32768

Cpu ==
    [register_a |-> register_a, register_x |-> register_x, register_y |-> register_y,
     status |-> status, program_counter |-> program_counter, memory |-> memory,
     ctl |-> ctl]

Becomes(c) ==
    /\ register_a' = c.register_a
    /\ register_x' = c.register_x
    /\ register_y' = c.register_y
    /\ status' = c.status
    /\ program_counter' = c.program_counter
    /\ memory' = c.memory
    /\ ctl' = c.ctl

Panic(c) == [c EXCEPT !.ctl = "panicked"]

new ==
    [register_a |-> 0, register_x |-> 0, register_y |-> 0, status |-> 0,
     program_counter |-> 0, memory |-> Zeroed, ctl |-> "idle"]

\* A read that may panic: ok = FALSE when it panics
Ok(v) == [ok |-> TRUE, val |-> v]
Fail == [ok |-> FALSE, val |-> 0]

\* self.memory[addr as usize]: the index is checked against the array's length
InBounds(addr) == addr < MemLen

mem_read(c, addr) == IF InBounds(addr) THEN Ok(Get(c.memory, addr)) ELSE Fail

mem_write(c, addr, value) ==
    IF InBounds(addr) THEN [c EXCEPT !.memory = Put(c.memory, addr, value)]
    ELSE Panic(c)

\* low is read before addr + 1 is computed, so addr + 1 never exceeds 0xFFFF
mem_read_u16(c, addr) ==
    LET low == mem_read(c, addr)
        high == mem_read(c, addr + 1)
    IN  IF low.ok /\ high.ok THEN Ok(high.val * 256 + low.val) ELSE Fail

\* mutant: the high byte is written first, at addr
mem_write_u16_big_endian(c, addr, value) ==
    LET low == BitAnd(value, 255)
        high == value \div 256
        c1 == mem_write(c, addr, high)
    IN  IF c1.ctl = "panicked" THEN c1 ELSE mem_write(c1, addr + 1, low)

mem_write_u16(c, addr, value) ==
    LET low == BitAnd(value, 255)
        high == value \div 256
        c1 == mem_write(c, addr, low)
    IN  IF c1.ctl = "panicked" THEN c1 ELSE mem_write(c1, addr + 1, high)

AddressingMode ==
    {"Immediate", "ZeroPage", "ZeroPage_X", "ZeroPage_Y", "Absolute", "Absolute_X",
     "Absolute_Y", "Indirect_X", "Indirect_Y", "NoneAddressing"}

\* mutant: Indirect_X reads the high byte of the pointer past the zero page
get_operand_address_page_crossing(c, mode) ==
    LET pc == c.program_counter
        byte == mem_read(c, pc)
        word == mem_read_u16(c, pc)
    IN  CASE mode = "Immediate" -> Ok(pc)
          [] mode = "ZeroPage" -> byte
          [] mode = "Absolute" -> word
          [] mode = "ZeroPage_X" ->
                IF byte.ok THEN Ok(WrapAdd8(byte.val, c.register_x)) ELSE Fail
          [] mode = "ZeroPage_Y" ->
                IF byte.ok THEN Ok(WrapAdd8(byte.val, c.register_y)) ELSE Fail
          [] mode = "Absolute_X" ->
                IF word.ok THEN Ok(WrapAdd16(word.val, c.register_x)) ELSE Fail
          [] mode = "Absolute_Y" ->
                IF word.ok THEN Ok(WrapAdd16(word.val, c.register_y)) ELSE Fail
          [] mode = "Indirect_X" ->
                IF ~byte.ok THEN Fail
                ELSE LET ptr == WrapAdd8(byte.val, c.register_x)
                         lo == mem_read(c, ptr)
                         hi == mem_read(c, ptr + 1)
                     IN  Ok(hi.val * 256 + lo.val)
          [] mode = "Indirect_Y" ->
                IF ~byte.ok THEN Fail
                ELSE LET lo == mem_read(c, byte.val)
                         hi == mem_read(c, WrapAdd8(byte.val, 1))
                         deref_base == hi.val * 256 + lo.val
                     IN  Ok(WrapAdd16(deref_base, c.register_y))
          [] OTHER -> Fail

\* mutant: Indirect_Y adds register_x to the operand byte before the lookup
get_operand_address_preindexed(c, mode) ==
    LET pc == c.program_counter
        byte == mem_read(c, pc)
        word == mem_read_u16(c, pc)
    IN  CASE mode = "Immediate" -> Ok(pc)
          [] mode = "ZeroPage" -> byte
          [] mode = "Absolute" -> word
          [] mode = "ZeroPage_X" ->
                IF byte.ok THEN Ok(WrapAdd8(byte.val, c.register_x)) ELSE Fail
          [] mode = "ZeroPage_Y" ->
                IF byte.ok THEN Ok(WrapAdd8(byte.val, c.register_y)) ELSE Fail
          [] mode = "Absolute_X" ->
                IF word.ok THEN Ok(WrapAdd16(word.val, c.register_x)) ELSE Fail
          [] mode = "Absolute_Y" ->
                IF word.ok THEN Ok(WrapAdd16(word.val, c.register_y)) ELSE Fail
          [] mode = "Indirect_X" ->
                IF ~byte.ok THEN Fail
                ELSE LET ptr == WrapAdd8(byte.val, c.register_x)
                         lo == mem_read(c, ptr)
                         hi == mem_read(c, WrapAdd8(ptr, 1))
                     IN  Ok(hi.val * 256 + lo.val)
          [] mode = "Indirect_Y" ->
                IF ~byte.ok THEN Fail
                ELSE LET base == WrapAdd8(byte.val, c.register_x)
                         lo == mem_read(c, base)
                         hi == mem_read(c, WrapAdd8(base, 1))
                         deref_base == hi.val * 256 + lo.val
                     IN  Ok(WrapAdd16(deref_base, c.register_y))
          [] OTHER -> Fail

get_operand_address(c, mode) ==
    LET pc == c.program_counter
        byte == mem_read(c, pc)
        word == mem_read_u16(c, pc)
    IN  CASE mode = "Immediate" -> Ok(pc)
          [] mode = "ZeroPage" -> byte
          [] mode = "Absolute" -> word
          [] mode = "ZeroPage_X" ->
                IF byte.ok THEN Ok(WrapAdd8(byte.val, c.register_x)) ELSE Fail
          [] mode = "ZeroPage_Y" ->
                IF byte.ok THEN Ok(WrapAdd8(byte.val, c.register_y)) ELSE Fail
          [] mode = "Absolute_X" ->
                IF word.ok THEN Ok(WrapAdd16(word.val, c.register_x)) ELSE Fail
          [] mode = "Absolute_Y" ->
                IF word.ok THEN Ok(WrapAdd16(word.val, c.register_y)) ELSE Fail
          [] mode = "Indirect_X" ->
                IF ~byte.ok THEN Fail
                ELSE LET ptr == WrapAdd8(byte.val, c.register_x)
                         lo == mem_read(c, ptr)
                         hi == mem_read(c, WrapAdd8(ptr, 1))
                     IN  Ok(hi.val * 256 + lo.val)
          [] mode = "Indirect_Y" ->
                IF ~byte.ok THEN Fail
                ELSE LET lo == mem_read(c, byte.val)
                         hi == mem_read(c, WrapAdd8(byte.val, 1))
                         deref_base == hi.val * 256 + lo.val
                     IN  Ok(WrapAdd16(deref_base, c.register_y))
          [] OTHER -> Fail

\* mutant: the status byte is rebuilt from the two flags alone
update_flags_clobbering(c, result) ==
    [c EXCEPT !.status = (IF result = 0 THEN \b00000010 ELSE 0)
                         + (IF result >= 128 THEN \b10000000 ELSE 0)]

\* mutant: the flags are set and never cleared
update_flags_without_clearing(c, result) ==
    LET s1 == IF result = 0 THEN BitOr(c.status, \b00000010) ELSE c.status
        s2 == IF BitAnd(result, \b10000000) # 0 THEN BitOr(s1, \b10000000) ELSE s1
    IN  [c EXCEPT !.status = s2]

update_zero_and_negative_flags(c, result) ==
    LET s1 == IF result = 0 THEN BitOr(c.status, \b00000010)
              ELSE BitAnd(c.status, \b11111101)
        s2 == IF BitAnd(result, \b10000000) # 0 THEN BitOr(s1, \b10000000)
              ELSE BitAnd(s1, \b01111111)
    IN  [c EXCEPT !.status = s2]

\* mutant: the accumulator is loaded and the flags are left as they were
lda_without_flags(c, mode) ==
    LET addr == get_operand_address(c, mode)
        value == mem_read(c, addr.val)
    IN  IF ~addr.ok \/ ~value.ok THEN Panic(c)
        ELSE [c EXCEPT !.register_a = value.val]

lda(c, mode) ==
    LET addr == get_operand_address(c, mode)
        value == mem_read(c, addr.val)
    IN  IF ~addr.ok \/ ~value.ok THEN Panic(c)
        ELSE update_zero_and_negative_flags([c EXCEPT !.register_a = value.val],
                                            value.val)

\* mutant: the two registers are exchanged
tax_exchanging(c) ==
    LET c1 == [c EXCEPT !.register_x = c.register_a, !.register_a = c.register_x]
    IN  update_zero_and_negative_flags(c1, c1.register_x)

tax(c) ==
    LET c1 == [c EXCEPT !.register_x = c.register_a]
    IN  update_zero_and_negative_flags(c1, c1.register_x)

\* mutant: register_x += 1 with the overflow check of a debug build
inx_checked(c) ==
    IF c.register_x = 255 THEN Panic(c)
    ELSE LET c1 == [c EXCEPT !.register_x = c.register_x + 1]
         IN  update_zero_and_negative_flags(c1, c1.register_x)

\* the 0xE8 arm of run
inx(c) ==
    LET c1 == [c EXCEPT !.register_x = WrapAdd8(c.register_x, 1)]
    IN  update_zero_and_negative_flags(c1, c1.register_x)

\* mutant: the accumulator is stored one byte too far
sta_off_by_one(c, mode) ==
    LET addr == get_operand_address(c, mode)
    IN  IF ~addr.ok THEN Panic(c) ELSE mem_write(c, addr.val + 1, c.register_a)

\* mutant: the store also sets the flags from the accumulator
sta_with_flags(c, mode) ==
    LET addr == get_operand_address(c, mode)
    IN  IF ~addr.ok THEN Panic(c)
        ELSE update_zero_and_negative_flags(mem_write(c, addr.val, c.register_a),
                                            c.register_a)

sta(c, mode) ==
    LET addr == get_operand_address(c, mode)
    IN  IF ~addr.ok THEN Panic(c) ELSE mem_write(c, addr.val, c.register_a)

\* mutant: the reset vector is read high byte first
reset_big_endian(c) ==
    LET vector == mem_read_u16(c, ResetVector)
        c1 == [c EXCEPT !.register_a = 0, !.register_x = 0, !.status = 0]
    IN  IF vector.ok
        THEN [c1 EXCEPT !.program_counter = (vector.val % 256) * 256 + vector.val \div 256]
        ELSE Panic(c1)

reset(c) ==
    LET vector == mem_read_u16(c, ResetVector)
        c1 == [c EXCEPT !.register_a = 0, !.register_x = 0, !.status = 0]
    IN  IF vector.ok THEN [c1 EXCEPT !.program_counter = vector.val] ELSE Panic(c1)

\* arr[base..base + src.len()].copy_from_slice(src)
CopyFromSlice(arr, base, src) ==
    LET kept == {j \in DOMAIN arr : j < base \/ j >= base + src.len}
    IN  [j \in kept \cup {base + i : i \in DOMAIN src.at} |->
            IF j \in kept THEN arr[j] ELSE src.at[j - base]]

load(c, prog) ==
    IF ProgramBase + prog.len > MemLen THEN Panic(c)
    ELSE mem_write_u16([c EXCEPT !.memory = CopyFromSlice(c.memory, ProgramBase, prog)],
                       ResetVector, ProgramBase)

(***************************************************************************)
(* One iteration of the loop of run: fetch, advance, dispatch.  An arm's   *)
(* trailing program_counter += n is skipped when the routine panicked.     *)
(* No += overflows: the operand bytes were read in bounds just before, so  *)
(* the sum is at most 0xFFFF (TypeOK checks it).                           *)
(***************************************************************************)
\* mutant: every instruction is taken to have one operand byte
Advance_one_byte(c, n) ==
    IF c.ctl = "panicked" THEN c ELSE [c EXCEPT !.program_counter = @ + 1]

Advance(c, n) ==
    IF c.ctl = "panicked" THEN c ELSE [c EXCEPT !.program_counter = @ + n]

LdaOpcodes == {\hA9, \hA5, \hB5, \hAD, \hBD, \hB9, \hA1, \hB1}
StaOpcodes == {\h85, \h95, \h8D, \h9D, \h99, \h81, \h91}
TaxOpcode == \hAA
InxOpcode == \hE8
BrkOpcode == \h00
Implemented == LdaOpcodes \cup StaOpcodes \cup {TaxOpcode, InxOpcode, BrkOpcode}

\* the addressing mode of the arm of each LDA and STA opcode
OperandMode(opscode) ==
    CASE opscode \in {\hA9} -> "Immediate"
      [] opscode \in {\hA5, \h85} -> "ZeroPage"
      [] opscode \in {\hB5, \h95} -> "ZeroPage_X"
      [] opscode \in {\hAD, \h8D} -> "Absolute"
      [] opscode \in {\hBD, \h9D} -> "Absolute_X"
      [] opscode \in {\hB9, \h99} -> "Absolute_Y"
      [] opscode \in {\hA1, \h81} -> "Indirect_X"
      [] opscode \in {\hB1, \h91} -> "Indirect_Y"
      [] OTHER -> "NoneAddressing"

\* mutant: the halt leaves the program counter on the 0x00 byte
run_step_brk_in_place(c) ==
    LET fetched == mem_read(c, c.program_counter)
        opscode == fetched.val
        c1 == [c EXCEPT !.program_counter = @ + 1]
    IN  IF ~fetched.ok THEN Panic(c)
        ELSE CASE opscode = \hA9 -> Advance(lda(c1, "Immediate"), 1)
               [] opscode = \hA5 -> Advance(lda(c1, "ZeroPage"), 1)
               [] opscode = \hB5 -> Advance(lda(c1, "ZeroPage_X"), 1)
               [] opscode = \hAD -> Advance(lda(c1, "Absolute"), 2)
               [] opscode = \hBD -> Advance(lda(c1, "Absolute_X"), 2)
               [] opscode = \hB9 -> Advance(lda(c1, "Absolute_Y"), 2)
               [] opscode = \hA1 -> Advance(lda(c1, "Indirect_X"), 1)
               [] opscode = \hB1 -> Advance(lda(c1, "Indirect_Y"), 1)
               [] opscode = \hAA -> tax(c1)
               [] opscode = \hE8 -> inx(c1)
               [] opscode = \h85 -> Advance(sta(c1, "ZeroPage"), 1)
               [] opscode = \h95 -> Advance(sta(c1, "ZeroPage_X"), 1)
               [] opscode = \h8D -> Advance(sta(c1, "Absolute"), 2)
               [] opscode = \h9D -> Advance(sta(c1, "Absolute_X"), 2)
               [] opscode = \h99 -> Advance(sta(c1, "Absolute_Y"), 2)
               [] opscode = \h81 -> Advance(sta(c1, "Indirect_X"), 1)
               [] opscode = \h91 -> Advance(sta(c1, "Indirect_Y"), 1)
               [] opscode = \h00 -> [c EXCEPT !.ctl = "idle"]
               [] OTHER -> Panic(c1)

\* mutant: an opcode without an arm is skipped
run_step_skipping(c) ==
    LET fetched == mem_read(c, c.program_counter)
        opscode == fetched.val
        c1 == [c EXCEPT !.program_counter = @ + 1]
    IN  IF ~fetched.ok THEN Panic(c)
        ELSE CASE opscode = \hA9 -> Advance(lda(c1, "Immediate"), 1)
               [] opscode = \hA5 -> Advance(lda(c1, "ZeroPage"), 1)
               [] opscode = \hB5 -> Advance(lda(c1, "ZeroPage_X"), 1)
               [] opscode = \hAD -> Advance(lda(c1, "Absolute"), 2)
               [] opscode = \hBD -> Advance(lda(c1, "Absolute_X"), 2)
               [] opscode = \hB9 -> Advance(lda(c1, "Absolute_Y"), 2)
               [] opscode = \hA1 -> Advance(lda(c1, "Indirect_X"), 1)
               [] opscode = \hB1 -> Advance(lda(c1, "Indirect_Y"), 1)
               [] opscode = \hAA -> tax(c1)
               [] opscode = \hE8 -> inx(c1)
               [] opscode = \h85 -> Advance(sta(c1, "ZeroPage"), 1)
               [] opscode = \h95 -> Advance(sta(c1, "ZeroPage_X"), 1)
               [] opscode = \h8D -> Advance(sta(c1, "Absolute"), 2)
               [] opscode = \h9D -> Advance(sta(c1, "Absolute_X"), 2)
               [] opscode = \h99 -> Advance(sta(c1, "Absolute_Y"), 2)
               [] opscode = \h81 -> Advance(sta(c1, "Indirect_X"), 1)
               [] opscode = \h91 -> Advance(sta(c1, "Indirect_Y"), 1)
               [] opscode = \h00 -> [c1 EXCEPT !.ctl = "idle"]
               [] OTHER -> c1

\* mutant: the program counter is not advanced past the opcode
run_step_without_advance(c) ==
    LET fetched == mem_read(c, c.program_counter)
        opscode == fetched.val
        c1 == c
    IN  IF ~fetched.ok THEN Panic(c)
        ELSE CASE opscode = \hA9 -> Advance(lda(c1, "Immediate"), 1)
               [] opscode = \hA5 -> Advance(lda(c1, "ZeroPage"), 1)
               [] opscode = \hB5 -> Advance(lda(c1, "ZeroPage_X"), 1)
               [] opscode = \hAD -> Advance(lda(c1, "Absolute"), 2)
               [] opscode = \hBD -> Advance(lda(c1, "Absolute_X"), 2)
               [] opscode = \hB9 -> Advance(lda(c1, "Absolute_Y"), 2)
               [] opscode = \hA1 -> Advance(lda(c1, "Indirect_X"), 1)
               [] opscode = \hB1 -> Advance(lda(c1, "Indirect_Y"), 1)
               [] opscode = \hAA -> tax(c1)
               [] opscode = \hE8 -> inx(c1)
               [] opscode = \h85 -> Advance(sta(c1, "ZeroPage"), 1)
               [] opscode = \h95 -> Advance(sta(c1, "ZeroPage_X"), 1)
               [] opscode = \h8D -> Advance(sta(c1, "Absolute"), 2)
               [] opscode = \h9D -> Advance(sta(c1, "Absolute_X"), 2)
               [] opscode = \h99 -> Advance(sta(c1, "Absolute_Y"), 2)
               [] opscode = \h81 -> Advance(sta(c1, "Indirect_X"), 1)
               [] opscode = \h91 -> Advance(sta(c1, "Indirect_Y"), 1)
               [] opscode = \h00 -> [c1 EXCEPT !.ctl = "idle"]
               [] OTHER -> Panic(c1)

run_step(c) ==
    LET fetched == mem_read(c, c.program_counter)
        opscode == fetched.val
        c1 == [c EXCEPT !.program_counter = @ + 1]
    IN  IF ~fetched.ok THEN Panic(c)
        ELSE CASE opscode = \hA9 -> Advance(lda(c1, "Immediate"), 1)
               [] opscode = \hA5 -> Advance(lda(c1, "ZeroPage"), 1)
               [] opscode = \hB5 -> Advance(lda(c1, "ZeroPage_X"), 1)
               [] opscode = \hAD -> Advance(lda(c1, "Absolute"), 2)
               [] opscode = \hBD -> Advance(lda(c1, "Absolute_X"), 2)
               [] opscode = \hB9 -> Advance(lda(c1, "Absolute_Y"), 2)
               [] opscode = \hA1 -> Advance(lda(c1, "Indirect_X"), 1)
               [] opscode = \hB1 -> Advance(lda(c1, "Indirect_Y"), 1)
               [] opscode = \hAA -> tax(c1)
               [] opscode = \hE8 -> inx(c1)
               [] opscode = \h85 -> Advance(sta(c1, "ZeroPage"), 1)
               [] opscode = \h95 -> Advance(sta(c1, "ZeroPage_X"), 1)
               [] opscode = \h8D -> Advance(sta(c1, "Absolute"), 2)
               [] opscode = \h9D -> Advance(sta(c1, "Absolute_X"), 2)
               [] opscode = \h99 -> Advance(sta(c1, "Absolute_Y"), 2)
               [] opscode = \h81 -> Advance(sta(c1, "Indirect_X"), 1)
               [] opscode = \h91 -> Advance(sta(c1, "Indirect_Y"), 1)
               [] opscode = \h00 -> [c1 EXCEPT !.ctl = "idle"]
               [] OTHER -> Panic(c1)

(***************************************************************************)
(* The picture unit's register shim (src/src/ppu.rs).  The field oam is    *)
(* read and written by no routine and is left out.                         *)
(***************************************************************************)
\* AddressRegister: value is the pair (high byte, low byte)
AddressRegister_new == [value |-> <<0, 0>>, hi_ptr |-> TRUE]

AddressRegister_set(r, data) ==
    [r EXCEPT !.value = <<(data \div 256) % 256, BitAnd(data, \hFF)>>]

AddressRegister_get(r) == BitOr(r.value[1] * 256, r.value[2])

\* mutant: the carry is taken also when the low byte did not move
AddressRegister_increment_carry_on_equal(r, inc) ==
    LET lo == r.value[2]
        lo1 == WrapAdd8(r.value[2], inc)
    IN  [r EXCEPT !.value = <<IF lo >= lo1 THEN WrapAdd8(r.value[1], 1) ELSE r.value[1],
                              lo1>>]

AddressRegister_increment(r, inc) ==
    LET lo == r.value[2]
        lo1 == WrapAdd8(r.value[2], inc)
    IN  [r EXCEPT !.value = <<IF lo > lo1 THEN WrapAdd8(r.value[1], 1) ELSE r.value[1],
                              lo1>>]

\* mutant: the written byte is kept whole, the address is not masked
AddressRegister_update_unmasked(r, data) ==
    LET r1 == IF r.hi_ptr THEN [r EXCEPT !.value[1] = data]
              ELSE [r EXCEPT !.value[2] = data]
    IN  [r1 EXCEPT !.hi_ptr = ~r1.hi_ptr]

AddressRegister_update(r, data) ==
    LET r1 == IF r.hi_ptr THEN [r EXCEPT !.value[1] = data]
              ELSE [r EXCEPT !.value[2] = data]
        r2 == IF AddressRegister_get(r1) > \h3FFF
              THEN AddressRegister_set(r1, BitAnd(AddressRegister_get(r1), \h3FFF))
              ELSE r1
    IN  [r2 EXCEPT !.hi_ptr = ~r1.hi_ptr]

AddressRegister_reset_latch(r) == [r EXCEPT !.hi_ptr = TRUE]

\* ControlRegister: the set of flags is its byte; every bit is a flag, so
\* from_bits_truncate keeps the whole byte
VRAM_ADD_INCREMENT == \b00000100

ControlRegister_new == \b00000000

ControlRegister_vram_addr_increment(bits) ==
    IF BitAnd(bits, VRAM_ADD_INCREMENT) # VRAM_ADD_INCREMENT THEN 1 ELSE 32

ControlRegister_update(bits, data) == data

\* cartridge::Mirroring, the variants the shim names
Mirroring == {"Horizontal", "Vertical"}

\* vram: [u8; 2048] and pallete_table: [u8; 32]
VramLen == 2048
PalleteLen == 32

Ppu ==
    [chr_rom |-> chr_rom, pallete_table |-> pallete_table, vram |-> vram,
     mirroring |-> mirroring, addr_reg |-> addr_reg, control_reg |-> control_reg,
     internal_data_buffer |-> internal_data_buffer, ctl |-> ppu_ctl]

PpuBecomes(p) ==
    /\ chr_rom' = p.chr_rom
    /\ pallete_table' = p.pallete_table
    /\ vram' = p.vram
    /\ mirroring' = p.mirroring
    /\ addr_reg' = p.addr_reg
    /\ control_reg' = p.control_reg
    /\ internal_data_buffer' = p.internal_data_buffer
    /\ ppu_ctl' = p.ctl

PPU_new(chr, mirror) ==
    [chr_rom |-> chr, pallete_table |-> Zeroed, vram |-> Zeroed, mirroring |-> mirror,
     addr_reg |-> AddressRegister_new, control_reg |-> ControlRegister_new,
     internal_data_buffer |-> 0, ctl |-> "ok"]

\* mutant: the arms of the two mirroring modes are exchanged
PPU_mirror_vram_addr_swapped(p, addr) ==
    LET mirrored_vram == BitAnd(addr, \b10111111111111)
        vram_index == mirrored_vram - \h2000
        name_table == vram_index \div \h400
    IN  IF mirrored_vram < \h2000 THEN Fail
        ELSE CASE p.mirroring = "Horizontal" /\ name_table \in {2, 3} -> Ok(vram_index - \h800)
               [] p.mirroring = "Vertical" /\ name_table = 2 -> Ok(vram_index - \h400)
               [] p.mirroring = "Vertical" /\ name_table = 1 -> Ok(vram_index - \h400)
               [] p.mirroring = "Vertical" /\ name_table = 3 -> Ok(vram_index - \h800)
               [] OTHER -> Ok(vram_index)

\* ok = FALSE: mirrored_vram - 0x2000 overflows (addr below 0x2000 after the
\* mask), which read_data and write_to_data_reg never ask for
PPU_mirror_vram_addr(p, addr) ==
    LET mirrored_vram == BitAnd(addr, \b10111111111111)
        vram_index == mirrored_vram - \h2000
        name_table == vram_index \div \h400
    IN  IF mirrored_vram < \h2000 THEN Fail
        ELSE CASE p.mirroring = "Vertical" /\ name_table \in {2, 3} -> Ok(vram_index - \h800)
               [] p.mirroring = "Horizontal" /\ name_table = 2 -> Ok(vram_index - \h400)
               [] p.mirroring = "Horizontal" /\ name_table = 1 -> Ok(vram_index - \h400)
               [] p.mirroring = "Horizontal" /\ name_table = 3 -> Ok(vram_index - \h800)
               [] OTHER -> Ok(vram_index)

PPU_write_to_addr_reg(p, value) ==
    [p EXCEPT !.addr_reg = AddressRegister_update(p.addr_reg, value)]

PPU_write_to_control_reg(p, value) ==
    [p EXCEPT !.control_reg = ControlRegister_update(p.control_reg, value)]

PPU_increment_vram_addr(p) ==
    [p EXCEPT !.addr_reg =
        AddressRegister_increment(p.addr_reg,
                                  ControlRegister_vram_addr_increment(p.control_reg))]

PpuPanic(p) == [p EXCEPT !.ctl = "panicked"]

\* the picture unit the call leaves and the byte it returns (no byte when
\* it panics); the address is taken before the increment
PPU_read_data(p) ==
    LET addr == AddressRegister_get(p.addr_reg)
        p1 == PPU_increment_vram_addr(p)
        index == PPU_mirror_vram_addr(p1, addr)
    IN  CASE addr >= \h0000 /\ addr <= \h1FFF ->
                IF addr < p1.chr_rom.len
                THEN [ppu |-> [p1 EXCEPT !.internal_data_buffer = Get(p1.chr_rom.at, addr)],
                      result |-> Ok(p1.internal_data_buffer)]
                ELSE [ppu |-> PpuPanic(p1), result |-> Fail]
          [] addr >= \h2000 /\ addr <= \h3EFF ->
                IF index.ok /\ index.val < VramLen
                THEN [ppu |-> [p1 EXCEPT !.internal_data_buffer = Get(p1.vram, index.val)],
                      result |-> Ok(p1.internal_data_buffer)]
                ELSE [ppu |-> PpuPanic(p1), result |-> Fail]
          [] addr >= \h3F00 /\ addr <= \h3FFF ->
                [ppu |-> p1, result |-> Ok(Get(p1.pallete_table, BitAnd(addr, \h1F)))]
          [] OTHER -> [ppu |-> PpuPanic(p1), result |-> Fail]

\* a panic leaves the address as it was: the increment comes last
PPU_write_to_data_reg(p, value) ==
    LET addr == AddressRegister_get(p.addr_reg)
        index == PPU_mirror_vram_addr(p, addr)
    IN  CASE addr >= \h0000 /\ addr <= \h1FFF -> PpuPanic(p)
          [] addr >= \h2000 /\ addr <= \h3EFF ->
                IF index.ok /\ index.val < VramLen
                THEN PPU_increment_vram_addr([p EXCEPT !.vram = Put(p.vram, index.val, value)])
                ELSE PpuPanic(p)
          [] addr \in {\h3F10, \h3F14, \h3F18, \h3F1C} ->
                LET add_mirror == addr - \h10
                IN  PPU_increment_vram_addr(
                        [p EXCEPT !.pallete_table =
                            Put(p.pallete_table, BitAnd(add_mirror, \h1F), value)])
          [] addr >= \h3F00 /\ addr <= \h3FFF ->
                PPU_increment_vram_addr(
                    [p EXCEPT !.pallete_table =
                        Put(p.pallete_table, BitAnd(addr, \h1F), value)])
          [] OTHER -> PpuPanic(p)

(***************************************************************************)
(* Inputs: the bytes, addresses and programs the callers are drawn from.   *)
(***************************************************************************)
\* the bytes at the edges of the zero and negative flags and of wraparound
EdgeBytes == {\h00, \h01, \h7F, \h80, \hFF}
\* operands of the programs of tests/cpu_tests.rs
TestBytes == {\h05, \h0A, \h55, \hC0}
SampleBytes == EdgeBytes \cup TestBytes
ZeroPageAddrs == {\h00, \h10, \hFF}
StoredBytes == {\h00, \h55, \h80, \hFF}

Lo(w) == w % 256
Hi(w) == w \div 256

LdaImmediate(v) == <<\hA9, v, \h00>>
LdaTax(v) == <<\hA9, v, \hAA, \h00>>
LdaTaxInx(v) == <<\hA9, v, \hAA, \hE8, \h00>>
LdaTaxInxInx(v) == <<\hA9, v, \hAA, \hE8, \hE8, \h00>>
StoreLoadZeroPage(v, z) == <<\hA9, v, \h85, z, \hA5, z, \h00>>
StoreLoadAbsolute(v, a, b) ==
    <<\hA9, v, \h8D, Lo(a), Hi(a), \hAD, Lo(b), Hi(b), \h00>>

\* the program of test_format_trace: LDX, DEX and DEY have no arm in run
TraceProgram == <<\hA2, \h01, \hCA, \h88, \h00>>

\* LDA #$E8, STA $8005, then the halt at 0x8005, which the store turns into
\* INX, then the halt at 0x8006
SelfModifyingProgram == <<\hA9, \hE8, \h8D, \h05, \h80, \h00, \h00>>

\* every LDA arm, TAX and INX, then every STA arm storing 0x5A, then the halt
AllArmsProgram ==
    <<\hA9, \h10, \hA5, \h10, \hB5, \h10, \hAD, \h00, \h02, \hBD, \h00, \h02,
      \hB9, \h00, \h02, \hA1, \h10, \hB1, \h10, \hAA, \hE8, \hA9, \h5A, \h85, \h10,
      \h95, \h10, \h8D, \h00, \h02, \h9D, \h00, \h02, \h99, \h00, \h02, \h81, \h10,
      \h91, \h10, \h00>>

\* pairs of addresses of the work-RAM window 0x0000-0x1FFF with equal low 11 bits
MirrorPairs ==
    {<<\h0000, \h0800>>, <<\h0000, \h1000>>, <<\h0000, \h1800>>,
     <<\h07FF, \h1FFF>>, <<\h0010, \h0010>>}

\* a program that halts at once and ends in six nonzero bytes
LongProgram(n) == [len |-> n, at |-> [i \in (n - 6)..(n - 1) |-> \hEA]]
LongLengths == (RomCapacity - 4)..RomCapacity

Programs ==
    {Vec(LdaImmediate(v)) : v \in SampleBytes}
    \cup {Vec(LdaTax(v)) : v \in SampleBytes}
    \cup {Vec(LdaTaxInx(v)) : v \in TestBytes}
    \cup {Vec(LdaTaxInxInx(v)) : v \in EdgeBytes}
    \cup {Vec(StoreLoadZeroPage(v, z)) : v \in StoredBytes, z \in ZeroPageAddrs}
    \cup {Vec(StoreLoadAbsolute(\h55, p[1], p[2])) : p \in MirrorPairs}
    \cup {LongProgram(n) : n \in LongLengths}
    \cup {Vec(TraceProgram)}

(***************************************************************************)
(* The callers' history: the names of the most recent calls.               *)
(***************************************************************************)
\* the last three calls: load_and_run is load, reset and run
Push(h, names) ==
    LET all == h \o names
    IN  IF Len(all) > 3 THEN SubSeq(all, Len(all) - 2, Len(all)) ELSE all

NoCall == [fn |-> "none"]

(***************************************************************************)
(* The CPU's state machine: calls made while no call is active, and the    *)
(* iterations of the loop of run.                                          *)
(***************************************************************************)
InitGhost ==
    /\ program = EmptyVec
    /\ history = <<>>
    /\ loads = 0
    /\ runs = 0

\* the bus is constructed by Bus::new()
InitBus ==
    /\ cpu_vram = Zeroed
    /\ prg_rom = Zeroed
    /\ bus_ctl = "ok"
    /\ bus_last = [op |-> "new"]
    /\ bus_calls = 0

PpuIs(p) ==
    /\ chr_rom = p.chr_rom
    /\ pallete_table = p.pallete_table
    /\ vram = p.vram
    /\ mirroring = p.mirroring
    /\ addr_reg = p.addr_reg
    /\ control_reg = p.control_reg
    /\ internal_data_buffer = p.internal_data_buffer
    /\ ppu_ctl = p.ctl

\* the picture unit is constructed by PPU::new(vec![], Mirroring::Horizontal)
\* nothing has been written through the data port
NoWrite == [addr |-> -1, value |-> 0]

InitPpuGhost ==
    /\ ppu_last = [op |-> "new", wrote |-> NoWrite]
    /\ ppu_calls = 0
    /\ latch_log = <<>>

InitPpu ==
    /\ PpuIs(PPU_new(EmptyVec, "Horizontal"))
    /\ InitPpuGhost

\* the CPU is constructed by CPU::new()
InitCpu ==
    /\ register_a = new.register_a
    /\ register_x = new.register_x
    /\ register_y = new.register_y
    /\ status = new.status
    /\ program_counter = new.program_counter
    /\ memory = new.memory
    /\ ctl = new.ctl

Init ==
    /\ InitCpu
    /\ InitGhost
    /\ call = NoCall
    /\ InitBus
    /\ InitPpu

Called(names) == history' = Push(history, names)

Load(prog) ==
    /\ ctl = "idle"
    /\ loads < MaxLoads
    /\ Becomes(load(Cpu, prog))
    /\ program' = prog
    /\ loads' = loads + 1
    /\ Called(<<"load">>)
    /\ UNCHANGED <<runs, call, bus_vars, ppu_vars>>

Reset ==
    /\ ctl = "idle"
    /\ Becomes(reset(Cpu))
    /\ Called(<<"reset">>)
    /\ UNCHANGED <<program, loads, runs, call, bus_vars, ppu_vars>>

\* run is entered; its loop is made of the Step actions
Run ==
    /\ ctl = "idle"
    /\ runs < MaxRuns
    /\ Becomes([Cpu EXCEPT !.ctl = "running"])
    /\ runs' = runs + 1
    /\ Called(<<"run">>)
    /\ UNCHANGED <<program, loads, call, bus_vars, ppu_vars>>

\* load, reset, then run is entered
LoadAndRun(prog) ==
    /\ ctl = "idle"
    /\ loads < MaxLoads
    /\ runs < MaxRuns
    /\ LET c1 == load(Cpu, prog)
           c2 == reset(c1)
       IN  Becomes(IF c1.ctl = "panicked" THEN c1
                   ELSE IF c2.ctl = "panicked" THEN c2
                   ELSE [c2 EXCEPT !.ctl = "running"])
    /\ program' = prog
    /\ loads' = loads + 1
    /\ runs' = runs + 1
    /\ Called(<<"load", "reset", "run">>)
    /\ UNCHANGED <<call, bus_vars, ppu_vars>>

\* load, program_counter = 0x8000, then run is entered
Interpret(prog) ==
    /\ ctl = "idle"
    /\ loads < MaxLoads
    /\ runs < MaxRuns
    /\ LET c1 == load(Cpu, prog)
       IN  Becomes(IF c1.ctl = "panicked" THEN c1
                   ELSE [c1 EXCEPT !.program_counter = ProgramBase, !.ctl = "running"])
    /\ program' = prog
    /\ loads' = loads + 1
    /\ runs' = runs + 1
    /\ Called(<<"interpret">>)
    /\ UNCHANGED <<call, bus_vars, ppu_vars>>

\* the opcode the next iteration fetches (-1: the fetch panics)
Fetched ==
    LET f == mem_read(Cpu, program_counter) IN IF f.ok THEN f.val ELSE -1

\* one iteration of the loop of run, by the opcode it fetches
StepLda ==
    /\ ctl = "running"
    /\ Fetched \in LdaOpcodes
    /\ Becomes(run_step(Cpu))
    /\ UNCHANGED <<ghost_vars, call, bus_vars, ppu_vars>>

StepSta ==
    /\ ctl = "running"
    /\ Fetched \in StaOpcodes
    /\ Becomes(run_step(Cpu))
    /\ UNCHANGED <<ghost_vars, call, bus_vars, ppu_vars>>

StepTax ==
    /\ ctl = "running"
    /\ Fetched = TaxOpcode
    /\ Becomes(run_step(Cpu))
    /\ UNCHANGED <<ghost_vars, call, bus_vars, ppu_vars>>

StepInx ==
    /\ ctl = "running"
    /\ Fetched = InxOpcode
    /\ Becomes(run_step(Cpu))
    /\ UNCHANGED <<ghost_vars, call, bus_vars, ppu_vars>>

\* the halt: run returns
StepBrk ==
    /\ ctl = "running"
    /\ Fetched = BrkOpcode
    /\ Becomes(run_step(Cpu))
    /\ UNCHANGED <<ghost_vars, call, bus_vars, ppu_vars>>

\* the fetch is out of bounds or the opcode has no arm (todo!())
StepPanic ==
    /\ ctl = "running"
    /\ Fetched \notin Implemented
    /\ Becomes(run_step(Cpu))
    /\ UNCHANGED <<ghost_vars, call, bus_vars, ppu_vars>>

Next ==
    \/ \E prog \in Programs : Load(prog)
    \/ Reset
    \/ Run
    \/ \E prog \in Programs : LoadAndRun(prog)
    \/ \E prog \in Programs : Interpret(prog)
    \/ StepLda
    \/ StepSta
    \/ StepTax
    \/ StepInx
    \/ StepBrk
    \/ StepPanic

Spec == Init /\ [][Next]_vars

(***************************************************************************)
(* The CPU from any state.  The fields register_a, register_x, register_y, *)
(* status and program_counter are pub and so is mem_write, so a caller can *)
(* bring the CPU to any register values and any memory contents before it  *)
(* calls reset or run.  InitAny draws such states.                         *)
(***************************************************************************)
AnyStatus == {\h00, \h7D, \h82, \hFF}
AnyIndexY == {\h00, \h02}
AnyPcs == {\h0000, ProgramBase, ProgramBase + 2, \hFFFE, \hFFFF}
AnyPrograms ==
    {Vec(LdaTaxInx(\hC0)), Vec(StoreLoadZeroPage(\h55, \h10)),
     Vec(StoreLoadAbsolute(\h55, \h07FF, \h1FFF))}
AnyVectors == {ProgramBase, ProgramBase + 2, \h00FF, \hFFFE}
AnyMemories ==
    {Zeroed}
    \cup {mem_write_u16(load(new, prog), ResetVector, vector).memory :
            prog \in AnyPrograms, vector \in AnyVectors}
    \cup {load(new, Vec(prog)).memory : prog \in {AllArmsProgram, TraceProgram, SelfModifyingProgram}}

InitAny ==
    /\ register_a \in EdgeBytes
    /\ register_x \in EdgeBytes
    /\ register_y \in AnyIndexY
    /\ status \in AnyStatus
    /\ program_counter \in AnyPcs
    /\ memory \in AnyMemories
    /\ ctl = "idle"
    /\ InitGhost
    /\ call = NoCall
    /\ InitBus
    /\ InitPpu

NextAny ==
    \/ Reset
    \/ Run
    \/ StepLda
    \/ StepSta
    \/ StepTax
    \/ StepInx
    \/ StepBrk
    \/ StepPanic

SpecAny == InitAny /\ [][NextAny]_vars

(***************************************************************************)
(* The run loop to its end.  The loop of run is sequential code: once run  *)
(* is entered, its next iteration is executed (weak fairness of RunLoop).  *)
(* The CPU starts from drawn registers, program counters and memories, as  *)
(* under InitAny.                                                          *)
(***************************************************************************)
RunIndexes == {\h00, \hFF}
\* INX in every cell from 0xFFF8 to the last cell of memory
InxTail == [i \in \hFFF8..(MemLen - 1) |-> InxOpcode]
RunPcs == AnyPcs \cup {\hFFF8}
RunMemories ==
    {Zeroed, InxTail}
    \cup {load(new, Vec(prog)).memory :
            prog \in {AllArmsProgram, TraceProgram, SelfModifyingProgram}}

InitRun ==
    /\ register_a \in RunIndexes
    /\ register_x \in RunIndexes
    /\ register_y \in AnyIndexY
    /\ status = 0
    /\ program_counter \in RunPcs
    /\ memory \in RunMemories
    /\ ctl = "idle"
    /\ InitGhost
    /\ call = NoCall
    /\ InitBus
    /\ InitPpu

\* an iteration of the loop, whatever it fetches: the disjunction of the
\* Step actions
RunLoop ==
    /\ ctl = "running"
    /\ \E c \in {run_step(Cpu)} : Becomes(c)
    /\ UNCHANGED <<ghost_vars, call, bus_vars, ppu_vars>>

SpecRun == InitRun /\ [][NextAny]_vars /\ WF_vars(RunLoop)

(***************************************************************************)
(* The status flag unit alone: update_zero_and_negative_flags applied to   *)
(* every result byte from every status byte.                               *)
(***************************************************************************)
InitFlags ==
    /\ register_a = 0
    /\ register_x = 0
    /\ register_y = 0
    /\ status \in Byte
    /\ program_counter = 0
    /\ memory = Zeroed
    /\ ctl = "idle"
    /\ InitGhost
    /\ \E result \in Byte :
          call = [fn |-> "update_zero_and_negative_flags", result |-> result,
                  status_in |-> status, done |-> FALSE]
    /\ InitBus
    /\ InitPpu

ApplyFlags ==
    /\ call.fn = "update_zero_and_negative_flags"
    /\ ~call.done
    /\ Becomes(update_zero_and_negative_flags(Cpu, call.result))
    /\ call' = [call EXCEPT !.done = TRUE]
    /\ UNCHANGED <<ghost_vars, bus_vars, ppu_vars>>

NextFlags == ApplyFlags

SpecFlags == InitFlags /\ [][NextFlags]_vars

(***************************************************************************)
(* The operand resolver alone: get_operand_address applied in every mode   *)
(* to a CPU whose operand bytes, index registers and zero page are drawn.  *)
(***************************************************************************)
ResolveIndexX == {\h00, \h02, \h80, \hFF}
ResolveIndexY == {\h00, \h01, \hFF}
\* the byte after the operand byte: the high byte of an absolute operand
ResolveHighBytes == {\h12, \hFF}
\* at 0xFFFE the second operand byte is the missing cell 0xFFFF
ResolvePcs == {\h0600, \hFFFE}

\* The zero page and the page after it hold bytes that tell the cells
\* apart: no two cells of a page are equal, cell i + 256 differs from cell
\* i, and the cells 0x40, 0x41 hold the pointer 0xFFFF.
PointerCell(i) ==
    IF i \in {\h40, \h41} THEN \hFF
    ELSE IF i < 256 THEN (i * 37 + 11) % 256
    ELSE (i * 37 + 139) % 256

PointerPages == [i \in {j \in 0..511 : PointerCell(j) # 0} |-> PointerCell(i)]

ResolveMemory(pc, b, high) ==
    LET m1 == Put(PointerPages, pc, b)
    IN  IF InBounds(pc + 1) THEN Put(m1, pc + 1, high) ELSE m1

InitResolve ==
    /\ register_a = 0
    /\ register_x \in ResolveIndexX
    /\ register_y \in ResolveIndexY
    /\ status = 0
    /\ program_counter \in ResolvePcs
    /\ \E b \in Byte, high \in ResolveHighBytes :
          memory = ResolveMemory(program_counter, b, high)
    /\ ctl = "idle"
    /\ InitGhost
    /\ \E mode \in AddressingMode :
          call = [fn |-> "get_operand_address", mode |-> mode, done |-> FALSE]
    /\ InitBus
    /\ InitPpu

\* get_operand_address takes &self: the CPU is left as it was, unless the
\* call panics
ApplyResolve ==
    /\ call.fn = "get_operand_address"
    /\ ~call.done
    /\ LET r == get_operand_address(Cpu, call.mode)
       IN  /\ call' = [fn |-> call.fn, mode |-> call.mode, done |-> TRUE, address |-> r]
           /\ Becomes(IF r.ok THEN Cpu ELSE Panic(Cpu))
    /\ UNCHANGED <<ghost_vars, bus_vars, ppu_vars>>

NextResolve == ApplyResolve

SpecResolve == InitResolve /\ [][NextResolve]_vars

(***************************************************************************)
(* The memory bus (src/src/bus.rs).                                        *)
(***************************************************************************)
RAM == \h0000
RAM_MIRRORS_END == \h1FFF
PPU_REGISTERS == \h2000
PPU_REGISTERS_MIRRORS_END == \h3FFF
ROM == \h8000
ROM_END == \hFFFF

Bus == [cpu_vram |-> cpu_vram, prg_rom |-> prg_rom, ctl |-> bus_ctl]

Bus_new == [cpu_vram |-> Zeroed, prg_rom |-> Zeroed, ctl |-> "ok"]

\* ok = FALSE: the call panicked (todo!)
Bus_mem_read(b, addr) ==
    CASE addr >= RAM /\ addr <= RAM_MIRRORS_END ->
            LET mirror_down_addr == BitAnd(addr, \b0000011111111111)
            IN  Ok(Get(b.cpu_vram, mirror_down_addr))
      [] addr >= PPU_REGISTERS /\ addr <= PPU_REGISTERS_MIRRORS_END -> Fail
      [] addr >= ROM /\ addr <= ROM_END ->
            LET map_addr == addr - ROM
            IN  Ok(Get(b.prg_rom, map_addr))
      [] OTHER -> Ok(0)

\* mutant: the work-RAM mask keeps twelve bits
Bus_mem_write_wide_mask(b, addr, value) ==
    CASE addr >= RAM /\ addr <= RAM_MIRRORS_END ->
            LET mirror_down_addr == BitAnd(addr, \b111111111111)
            IN  [b EXCEPT !.cpu_vram = Put(b.cpu_vram, mirror_down_addr, value)]
      [] addr >= PPU_REGISTERS /\ addr <= PPU_REGISTERS_MIRRORS_END ->
            [b EXCEPT !.ctl = "panicked"]
      [] addr >= ROM /\ addr <= ROM_END ->
            LET map_addr == addr - ROM
            IN  [b EXCEPT !.prg_rom = Put(b.prg_rom, map_addr, value)]
      [] OTHER -> b

\* mutant: a write outside every window lands in the work RAM
Bus_mem_write_unmapped_to_ram(b, addr, value) ==
    CASE addr >= RAM /\ addr <= RAM_MIRRORS_END ->
            LET mirror_down_addr == BitAnd(addr, \b11111111111)
            IN  [b EXCEPT !.cpu_vram = Put(b.cpu_vram, mirror_down_addr, value)]
      [] addr >= PPU_REGISTERS /\ addr <= PPU_REGISTERS_MIRRORS_END ->
            [b EXCEPT !.ctl = "panicked"]
      [] addr >= ROM /\ addr <= ROM_END ->
            LET map_addr == addr - ROM
            IN  [b EXCEPT !.prg_rom = Put(b.prg_rom, map_addr, value)]
      [] OTHER ->
            LET mirror_down_addr == BitAnd(addr, \b11111111111)
            IN  [b EXCEPT !.cpu_vram = Put(b.cpu_vram, mirror_down_addr, value)]

Bus_mem_write(b, addr, value) ==
    CASE addr >= RAM /\ addr <= RAM_MIRRORS_END ->
            LET mirror_down_addr == BitAnd(addr, \b11111111111)
            IN  [b EXCEPT !.cpu_vram = Put(b.cpu_vram, mirror_down_addr, value)]
      [] addr >= PPU_REGISTERS /\ addr <= PPU_REGISTERS_MIRRORS_END ->
            [b EXCEPT !.ctl = "panicked"]
      [] addr >= ROM /\ addr <= ROM_END ->
            LET map_addr == addr - ROM
            IN  [b EXCEPT !.prg_rom = Put(b.prg_rom, map_addr, value)]
      [] OTHER -> b

BusBecomes(b) ==
    /\ cpu_vram' = b.cpu_vram
    /\ prg_rom' = b.prg_rom
    /\ bus_ctl' = b.ctl

BusAddrs ==
    {\h0000, \h0800, \h1000, \h1800, \h07FF, \h1FFF, \h0001, \h2000, \h2008,
     \h3FFF, \h4000, \h4801, \h7FFF, \h8000, \hFFFF}
BusBytes == {\h00, \h55, \hFF}

BusWrite(addr, value) ==
    /\ bus_ctl = "ok"
    /\ bus_calls < MaxBusCalls
    /\ BusBecomes(Bus_mem_write(Bus, addr, value))
    /\ bus_last' = [op |-> "mem_write", addr |-> addr, value |-> value]
    /\ bus_calls' = bus_calls + 1
    /\ UNCHANGED <<cpu_vars, ghost_vars, call, ppu_vars>>

BusRead(addr) ==
    /\ bus_ctl = "ok"
    /\ bus_calls < MaxBusCalls
    /\ LET r == Bus_mem_read(Bus, addr)
       IN  /\ bus_ctl' = IF r.ok THEN "ok" ELSE "panicked"
           /\ bus_last' = [op |-> "mem_read", addr |-> addr, value |-> r.val]
    /\ bus_calls' = bus_calls + 1
    /\ UNCHANGED <<cpu_vram, prg_rom, cpu_vars, ghost_vars, call, ppu_vars>>

NextBus ==
    \/ \E addr \in BusAddrs, value \in BusBytes : BusWrite(addr, value)
    \/ \E addr \in BusAddrs : BusRead(addr)

SpecBus == Init /\ [][NextBus]_vars

(***************************************************************************)
(* The address register alone (pub struct AddressRegister): the calls of   *)
(* its pub routines on the register of a new picture unit.                 *)
(***************************************************************************)
ppu_store_vars ==
    <<chr_rom, pallete_table, vram, mirroring, control_reg, internal_data_buffer, ppu_ctl>>

\* the bytes written to the address port: both halves of 0x2000 and 0x3FFF,
\* and bytes with the two top bits set
LatchBytes == {\h00, \h20, \h3F, \h7F, \hFF}
LatchIncrements == {1, 32}
LatchWords == {\h3FFF, \hFFFF}

Logged(op, arg) == latch_log' = Append(latch_log, [op |-> op, arg |-> arg])

LatchUpdate(data) ==
    /\ ppu_calls < MaxPpuCalls
    /\ addr_reg' = AddressRegister_update(addr_reg, data)
    /\ Logged("update", data)
    /\ ppu_last' = [op |-> "update", value |-> data]
    /\ ppu_calls' = ppu_calls + 1
    /\ UNCHANGED <<cpu_vars, ghost_vars, call, bus_vars, ppu_store_vars>>

LatchIncrement(inc) ==
    /\ ppu_calls < MaxPpuCalls
    /\ addr_reg' = AddressRegister_increment(addr_reg, inc)
    /\ Logged("increment", inc)
    /\ ppu_last' = [op |-> "increment", value |-> inc]
    /\ ppu_calls' = ppu_calls + 1
    /\ UNCHANGED <<cpu_vars, ghost_vars, call, bus_vars, ppu_store_vars>>

LatchSet(data) ==
    /\ ppu_calls < MaxPpuCalls
    /\ addr_reg' = AddressRegister_set(addr_reg, data)
    /\ Logged("set", data)
    /\ ppu_last' = [op |-> "set", value |-> data]
    /\ ppu_calls' = ppu_calls + 1
    /\ UNCHANGED <<cpu_vars, ghost_vars, call, bus_vars, ppu_store_vars>>

LatchResetLatch ==
    /\ ppu_calls < MaxPpuCalls
    /\ addr_reg' = AddressRegister_reset_latch(addr_reg)
    /\ latch_log' = <<>>
    /\ ppu_last' = [op |-> "reset_latch"]
    /\ ppu_calls' = ppu_calls + 1
    /\ UNCHANGED <<cpu_vars, ghost_vars, call, bus_vars, ppu_store_vars>>

NextLatch ==
    \/ \E data \in LatchBytes : LatchUpdate(data)
    \/ \E inc \in LatchIncrements : LatchIncrement(inc)
    \/ \E data \in LatchWords : LatchSet(data)
    \/ LatchResetLatch

SpecLatch == Init /\ [][NextLatch]_vars

(***************************************************************************)
(* The picture unit's shim: PPU::new applied to a graphics ROM and a       *)
(* mirroring mode, then calls of its pub routines.                         *)
(***************************************************************************)
\* no graphics ROM, and one that fills the window 0x0000-0x1FFF
ChrRoms == {EmptyVec, [len |-> \h2000, at |-> (\h0000 :> \h11) @@ (\h1FFF :> \h22)]}
PpuAddrBytes == {\h00, \h20, \h3F, \hFF}
PpuControlBytes == {\b00000000, \b00000100}
PpuDataBytes == {\h55}

InitPpuAny ==
    /\ InitCpu
    /\ InitGhost
    /\ call = NoCall
    /\ InitBus
    /\ \E chr \in ChrRoms, mirror \in Mirroring : PpuIs(PPU_new(chr, mirror))
    /\ InitPpuGhost

\* addr is the address the latch held when the call was made
PpuCalled(op, value) ==
    /\ ppu_last' = [op |-> op, value |-> value, addr |-> AddressRegister_get(addr_reg),
                    wrote |-> IF op = "write_to_data_reg" /\ ppu_ctl' = "ok"
                              THEN [addr |-> AddressRegister_get(addr_reg), value |-> value]
                              ELSE ppu_last.wrote]
    /\ ppu_calls' = ppu_calls + 1

PpuWriteToAddrReg(value) ==
    /\ ppu_ctl = "ok"
    /\ ppu_calls < MaxPpuCalls
    /\ PpuBecomes(PPU_write_to_addr_reg(Ppu, value))
    /\ Logged("update", value)
    /\ PpuCalled("write_to_addr_reg", value)
    /\ UNCHANGED <<cpu_vars, ghost_vars, call, bus_vars>>

PpuWriteToControlReg(value) ==
    /\ ppu_ctl = "ok"
    /\ ppu_calls < MaxPpuCalls
    /\ PpuBecomes(PPU_write_to_control_reg(Ppu, value))
    /\ PpuCalled("write_to_control_reg", value)
    /\ UNCHANGED <<cpu_vars, ghost_vars, call, bus_vars, latch_log>>

PpuReadData ==
    /\ ppu_ctl = "ok"
    /\ ppu_calls < MaxPpuCalls
    /\ LET r == PPU_read_data(Ppu)
       IN  /\ PpuBecomes(r.ppu)
           /\ PpuCalled("read_data", r.result.val)
    /\ Logged("increment", ControlRegister_vram_addr_increment(control_reg))
    /\ UNCHANGED <<cpu_vars, ghost_vars, call, bus_vars>>

PpuWriteToDataReg(value) ==
    /\ ppu_ctl = "ok"
    /\ ppu_calls < MaxPpuCalls
    /\ LET p == PPU_write_to_data_reg(Ppu, value)
       IN  /\ PpuBecomes(p)
           /\ IF p.ctl = "panicked" THEN UNCHANGED latch_log
              ELSE Logged("increment", ControlRegister_vram_addr_increment(control_reg))
    /\ PpuCalled("write_to_data_reg", value)
    /\ UNCHANGED <<cpu_vars, ghost_vars, call, bus_vars>>

NextPpu ==
    \/ \E value \in PpuAddrBytes : PpuWriteToAddrReg(value)
    \/ \E value \in PpuControlBytes : PpuWriteToControlReg(value)
    \/ PpuReadData
    \/ \E value \in PpuDataBytes : PpuWriteToDataReg(value)

SpecPpu == InitPpuAny /\ [][NextPpu]_vars

(***************************************************************************)
(* The palette through the data port.  The picture unit starts two address *)
(* writes after PPU::new, its latch holding a palette address; the calls   *)
(* of the behaviour are counted from there.                                *)
(***************************************************************************)
\* the first and the last mirrored pair
PaletteLowBytes == {\h00, \h10, \h0C, \h1C}
PaletteAddrBytes == {\h3F} \cup PaletteLowBytes

InitPalette ==
    /\ InitCpu
    /\ InitGhost
    /\ call = NoCall
    /\ InitBus
    /\ \E lo \in PaletteLowBytes :
          LET p1 == PPU_write_to_addr_reg(PPU_new(EmptyVec, "Horizontal"), \h3F)
              p2 == PPU_write_to_addr_reg(p1, lo)
          IN  /\ PpuIs(p2)
              /\ latch_log = <<[op |-> "update", arg |-> \h3F],
                               [op |-> "update", arg |-> lo]>>
    /\ ppu_last = [op |-> "write_to_addr_reg", wrote |-> NoWrite]
    /\ ppu_calls = 0

NextPalette ==
    \/ \E value \in PaletteAddrBytes : PpuWriteToAddrReg(value)
    \/ PpuReadData
    \/ \E value \in PpuDataBytes : PpuWriteToDataReg(value)

SpecPalette == InitPalette /\ [][NextPalette]_vars

(***************************************************************************)
(* AddressRegister::increment alone: applied with every step to latches    *)
(* holding every low byte under a few high bytes.                          *)
(***************************************************************************)
\* high bytes: none, the top of the 14-bit range, the top of the byte
IncrementHighBytes == {\h00, \h3F, \hFF}

InitIncrement ==
    /\ InitCpu
    /\ InitGhost
    /\ InitBus
    /\ \E hi \in IncrementHighBytes, lo \in Byte, ptr \in BOOLEAN :
          PpuIs([PPU_new(EmptyVec, "Horizontal") EXCEPT
                    !.addr_reg = [value |-> <<hi, lo>>, hi_ptr |-> ptr]])
    /\ InitPpuGhost
    /\ \E inc \in Byte :
          call = [fn |-> "increment", inc |-> inc, before |-> addr_reg, done |-> FALSE]

ApplyIncrement ==
    /\ call.fn = "increment"
    /\ ~call.done
    /\ addr_reg' = AddressRegister_increment(addr_reg, call.inc)
    /\ call' = [call EXCEPT !.done = TRUE]
    /\ UNCHANGED <<cpu_vars, ghost_vars, bus_vars, ppu_store_vars, ppu_last, ppu_calls,
                   latch_log>>

NextIncrement == ApplyIncrement

SpecIncrement == InitIncrement /\ [][NextIncrement]_vars

(***************************************************************************)
(* The 16-bit accessors alone: mem_write_u16 applied with every word at a  *)
(* few addresses, then mem_read_u16 at the same address.  The two cells    *)
(* hold other bytes beforehand.                                            *)
(***************************************************************************)
\* inside the zero page's end, the last address with both cells, and the
\* last cell, whose successor 0xFFFF is missing
WordAddrs == {\h00FF, \hFFFD, \hFFFE}

WordMemory(addr) ==
    LET m1 == Put(Zeroed, addr, \hAA)
    IN  IF InBounds(addr + 1) THEN Put(m1, addr + 1, \hBB) ELSE m1

InitWord ==
    /\ register_a = 0
    /\ register_x = 0
    /\ register_y = 0
    /\ status = 0
    /\ program_counter = 0
    /\ ctl = "idle"
    /\ InitGhost
    /\ InitBus
    /\ InitPpu
    /\ \E addr \in WordAddrs, value \in 0..65535 :
          /\ memory = WordMemory(addr)
          /\ call = [fn |-> "mem_write_u16", addr |-> addr, value |-> value,
                     done |-> FALSE]

\* the read follows only a write that returned
ApplyWord ==
    /\ call.fn = "mem_write_u16"
    /\ ~call.done
    /\ LET c1 == mem_write_u16(Cpu, call.addr, call.value)
           r == mem_read_u16(c1, call.addr)
       IN  /\ Becomes(IF c1.ctl # "panicked" /\ ~r.ok THEN Panic(c1) ELSE c1)
           /\ call' = [fn |-> call.fn, addr |-> call.addr, value |-> call.value,
                       done |-> TRUE,
                       read |-> IF c1.ctl = "panicked" THEN Fail ELSE r]
    /\ UNCHANGED <<ghost_vars, bus_vars, ppu_vars>>

NextWord == ApplyWord

SpecWord == InitWord /\ [][NextWord]_vars

(***************************************************************************)
(* PPU::mirror_vram_addr alone: applied under both mirroring modes to      *)
(* every address of the name tables and their mirror, 0x2000-0x3FFF, and   *)
(* to a few addresses whose masked value is below 0x2000.  For those the   *)
(* subtraction mirrored_vram - 0x2000 overflows: a build with overflow     *)
(* checks panics, a build without them wraps to mirrored_vram + 0xE000,    *)
(* whose name table is none of 1, 2, 3.                                    *)
(***************************************************************************)
MirrorAddrs == \h2000..\h3FFF
MirrorLowAddrs == {\h0000, \h1FFF, \h4000}

InitMirror ==
    /\ InitCpu
    /\ InitGhost
    /\ InitBus
    /\ \E mirror \in Mirroring : PpuIs(PPU_new(EmptyVec, mirror))
    /\ InitPpuGhost
    /\ \E addr \in MirrorAddrs \cup MirrorLowAddrs :
          call = [fn |-> "mirror_vram_addr", addr |-> addr, done |-> FALSE]

\* the call returns, or panics on the overflow
ApplyMirror ==
    /\ call.fn = "mirror_vram_addr"
    /\ ~call.done
    /\ LET r == PPU_mirror_vram_addr(Ppu, call.addr)
       IN  /\ call' = [fn |-> call.fn, addr |-> call.addr, done |-> TRUE, index |-> r]
           /\ ppu_ctl' = IF r.ok THEN ppu_ctl ELSE "panicked"
    /\ UNCHANGED <<cpu_vars, ghost_vars, bus_vars, chr_rom, pallete_table, vram, mirroring,
                   addr_reg, control_reg, internal_data_buffer, ppu_last, ppu_calls,
                   latch_log>>

\* the overflow in a build without overflow checks
ApplyMirrorWrapping ==
    /\ call.fn = "mirror_vram_addr"
    /\ ~call.done
    /\ ~PPU_mirror_vram_addr(Ppu, call.addr).ok
    /\ call' = [fn |-> call.fn, addr |-> call.addr, done |-> TRUE,
                index |-> Ok((BitAnd(call.addr, \b10111111111111) + \hE000) % 65536)]
    /\ UNCHANGED <<cpu_vars, ghost_vars, bus_vars, ppu_vars>>

NextMirror ==
    \/ ApplyMirror
    \/ ApplyMirrorWrapping

SpecMirror == InitMirror /\ [][NextMirror]_vars

(***************************************************************************)
(* What the claims speak of.                                               *)
(***************************************************************************)
ZeroFlag == Bit(status, 1) = 1
NegativeFlag == Bit(status, 7) = 1
\* in the status byte s the zero and negative flags are those of the byte v
FlagsOf(s, v) == (Bit(s, 1) = 1 <=> v = 0) /\ (Bit(s, 7) = 1 <=> Bit(v, 7) = 1)
FlagsFollow(v) == FlagsOf(status, v)

\* the calls so far end with load, reset, run (load_and_run makes the three)
LoadedResetRun == history = <<"load", "reset", "run">>
Halted == LoadedResetRun /\ ctl = "idle"
ProgramByte(i) == Get(program.at, i)
ProgramWord(i) == ProgramByte(i + 1) * 256 + ProgramByte(i)

IsLdaImmediate == program = Vec(LdaImmediate(ProgramByte(1)))
IsLdaTax == program = Vec(LdaTax(ProgramByte(1)))
IsLdaTaxInx == program = Vec(LdaTaxInx(ProgramByte(1)))
IsLdaTaxInxInx == program = Vec(LdaTaxInxInx(ProgramByte(1)))
IsStoreLoadZeroPage ==
    program = Vec(StoreLoadZeroPage(ProgramByte(1), ProgramByte(3)))
IsStoreLoadAbsolute ==
    program = Vec(StoreLoadAbsolute(ProgramByte(1), ProgramWord(3), ProgramWord(6)))

\* the iteration of run about to happen executes this opcode
About(opcode) == ctl = "running" /\ Fetched = opcode

\* C1: for every result byte v and every prior status byte s,
\* update_zero_and_negative_flags(v) leaves the zero flag (bit 1) set iff v = 0,
\* the negative flag (bit 7) set iff bit 7 of v is 1, and the other six status
\* bits as they were in s.
C1_FlagsContract ==
    (call.fn = "update_zero_and_negative_flags" /\ call.done) =>
        /\ FlagsFollow(call.result)
        /\ \A k \in {0, 2, 3, 4, 5, 6} : Bit(status, k) = Bit(call.status_in, k)

C1_Witness ==
    /\ call.fn = "update_zero_and_negative_flags"
    /\ call.done
    /\ call.result = \h80
    /\ call.status_in = \h43
    /\ status = \hC1

\* C2: the program [0xA9, v, 0x00], loaded, reset and run, never panics and
\* returns with the accumulator equal to v, the zero flag set iff v = 0 and the
\* negative flag set iff bit 7 of v is 1.
C2_LdaImmediate ==
    (LoadedResetRun /\ IsLdaImmediate) =>
        /\ ctl # "panicked"
        /\ ctl = "idle" =>
              /\ register_a = ProgramByte(1)
              /\ FlagsFollow(ProgramByte(1))

C2_Witness ==
    /\ Halted
    /\ program = Vec(LdaImmediate(\h80))
    /\ register_a = \h80
    /\ NegativeFlag
    /\ ~ZeroFlag

\* C3: an iteration of run that fetches 0xE8 does not panic, leaves X equal to
\* (X + 1) mod 256 and the zero and negative flags computed from the new X; and
\* the program [0xA9, 0xFF, 0xAA, 0xE8, 0xE8, 0x00], loaded, reset and run,
\* returns with X = 1.
C3_InxWraps ==
    [][/\ About(InxOpcode) =>
            /\ ctl' = "running"
            /\ register_x' = (register_x + 1) % 256
            /\ FlagsOf(status', register_x')
       /\ (Halted /\ program = Vec(LdaTaxInxInx(\hFF)))' => register_x' = 1
      ]_vars

C3_Witness ==
    /\ Halted
    /\ program = Vec(LdaTaxInxInx(\hFF))
    /\ register_x = 1
    /\ register_a = \hFF

\* C4: the program [0xA9, v, 0x85, z, 0xA5, z, 0x00], loaded, reset and run,
\* never panics and returns with the accumulator equal to v and the byte at
\* address z equal to v.
C4_StoreLoadRoundTrip ==
    (LoadedResetRun /\ IsStoreLoadZeroPage) =>
        /\ ctl # "panicked"
        /\ ctl = "idle" =>
              /\ register_a = ProgramByte(1)
              /\ mem_read(Cpu, ProgramByte(3)) = Ok(ProgramByte(1))

C4_Witness ==
    /\ Halted
    /\ program = Vec(StoreLoadZeroPage(\h55, \h10))
    /\ register_a = \h55
    /\ Get(memory, \h10) = \h55

\* C5: an iteration of run that fetches 0xAA leaves X equal to the accumulator,
\* leaves the accumulator, Y and memory as they were and the zero and negative
\* flags computed from the new X; LDA #$0A, TAX returns with X = 10 and
\* LDA #$C0, TAX, INX returns with X = 0xC1.
C5_Tax ==
    [][/\ About(TaxOpcode) =>
            /\ ctl' = "running"
            /\ register_x' = register_a
            /\ register_a' = register_a
            /\ register_y' = register_y
            /\ memory' = memory
            /\ FlagsOf(status', register_x')
       /\ (Halted /\ program = Vec(LdaTax(\h0A)))' => register_x' = 10
       /\ (Halted /\ program = Vec(LdaTaxInx(\hC0)))' => register_x' = \hC1
      ]_vars

C5_Witness ==
    /\ Halted
    /\ program = Vec(LdaTaxInx(\hC0))
    /\ register_x = \hC1
    /\ register_a = \hC0

\* C6: after load(program) on a fresh CPU, for a program of length n not
\* exceeding the 32 KiB of the ROM window, reading address 0x8000 + i returns
\* program[i] for every i < n, and when n is below the capacity reading address
\* 0x8000 + n returns 0.
C6_LoadReadsBack ==
    (history = <<"load">> /\ program.len <= RomCapacity) =>
        /\ ctl # "panicked"
        /\ \A i \in 0..(program.len - 1) :
              mem_read(Cpu, ProgramBase + i) = Ok(ProgramByte(i))
        /\ program.len < RomCapacity =>
              mem_read(Cpu, ProgramBase + program.len) = Ok(0)

\* C7: reset, from any CPU state, sets the accumulator, X and status to 0 and
\* the program counter to the little-endian word at 0xFFFC-0xFFFD, and leaves
\* every memory byte unchanged.
ResetCalled == ctl = "idle" /\ history' = Push(history, <<"reset">>) /\ runs' = runs

C7_Reset ==
    [][ResetCalled =>
          /\ ctl' = "idle"
          /\ register_a' = 0
          /\ register_x' = 0
          /\ status' = 0
          /\ program_counter' = Get(memory, \hFFFD) * 256 + Get(memory, \hFFFC)
          /\ memory' = memory
      ]_vars

C7_Witness ==
    /\ history = <<"reset">>
    /\ program_counter = \hFFFE
    /\ register_a = 0
    /\ register_y = 2
    /\ Get(memory, \h8000) = \hA9

\* C8: after load(program) for any program within the ROM capacity the reset
\* vector at 0xFFFC holds 0x8000, low byte first, so that load followed by reset
\* leaves the program counter at 0x8000.
C8_LoadSetsVector ==
    /\ (history # <<>> /\ history[Len(history)] = "load"
        /\ program.len <= RomCapacity) =>
          /\ ctl = "idle"
          /\ mem_read(Cpu, ResetVector) = Ok(\h00)
          /\ mem_read(Cpu, ResetVector + 1) = Ok(\h80)
    /\ (Len(history) >= 2 /\ SubSeq(history, Len(history) - 1, Len(history))
                                = <<"load", "reset">>
        /\ program.len <= RomCapacity) =>
          /\ ctl = "idle"
          /\ program_counter = ProgramBase

\* C9: on the Bus, after mem_write(a, v) with a in 0x0000-0x1FFF, mem_read(b)
\* returns v for every b of that window with b & 0x07FF = a & 0x07FF, and the
\* cells with other low 11 bits (and the program ROM) are unchanged.
BusWrote ==
    /\ bus_calls' = bus_calls + 1
    /\ bus_last'.op = "mem_write"
    /\ bus_last'.addr >= RAM
    /\ bus_last'.addr <= RAM_MIRRORS_END

C9_RamMirrors ==
    [][BusWrote =>
          LET a == bus_last'.addr
              v == bus_last'.value
          IN  /\ bus_ctl' = "ok"
              /\ \A k \in 0..3 : Bus_mem_read(Bus', (a % 2048) + 2048 * k) = Ok(v)
              /\ \A i \in 0..2047 :
                    i # a % 2048 => Get(cpu_vram', i) = Get(cpu_vram, i)
              /\ prg_rom' = prg_rom
      ]_vars

C9_Witness ==
    /\ bus_last = [op |-> "mem_write", addr |-> \h07FF, value |-> \h55]
    /\ Bus_mem_read(Bus, \h1FFF) = Ok(\h55)
    /\ Bus_mem_read(Bus, \h0000) = Ok(\hFF)

\* C10: a program that stores the accumulator to an address a in 0x0000-0x1FFF
\* and then loads from an address b of that window with the same low 11 bits
\* gets back the stored value: [0xA9, v, 0x8D, a, 0xAD, b, 0x00], loaded, reset
\* and run, returns with the accumulator equal to v.
C10_CpuSeesMirrors ==
    (Halted /\ IsStoreLoadAbsolute
     /\ ProgramWord(3) <= RAM_MIRRORS_END /\ ProgramWord(6) <= RAM_MIRRORS_END
     /\ ProgramWord(3) % 2048 = ProgramWord(6) % 2048) =>
        register_a = ProgramByte(1)

(***************************************************************************)
(* C11.  For every bus address that no region covers (0x4000-0x7FFF),      *)
(* mem_read returns 0 and mem_write leaves the work RAM and the program    *)
(* ROM completely unchanged; neither call faults.                          *)
(***************************************************************************)
\* the step is a Bus call at an address of the given set
BusCalledAt(addrs) == bus_calls' = bus_calls + 1 /\ bus_last'.addr \in addrs

Unmapped == (PPU_REGISTERS_MIRRORS_END + 1)..(ROM - 1)

C11_UnmappedIsInert ==
    [][BusCalledAt(Unmapped) =>
          /\ bus_ctl' = "ok"
          /\ cpu_vram' = cpu_vram
          /\ prg_rom' = prg_rom
          /\ bus_last'.op = "mem_read" => bus_last'.value = 0]_vars

\* an unmapped address is accessed after nonzero bytes were stored in the
\* work RAM or in the program ROM
C11_Witness ==
    /\ bus_calls = 2
    /\ bus_last.addr \in Unmapped
    /\ bus_ctl = "ok"
    /\ cpu_vram # Zeroed \/ prg_rom # Zeroed

(***************************************************************************)
(* C12.  A bus mem_read or mem_write at any address in 0x2000-0x3FFF is    *)
(* masked to one of the eight picture-unit registers and dispatched to the *)
(* picture-unit shim: two addresses of the window that differ only outside *)
(* their low three bits behave identically, and the access completes       *)
(* without aborting.  (Stated for the part that fails: the access          *)
(* completes.)                                                             *)
(***************************************************************************)
PpuWindow == PPU_REGISTERS..PPU_REGISTERS_MIRRORS_END

C12_PpuWindowCompletes ==
    (bus_calls > 0 /\ bus_last.addr \in PpuWindow) => bus_ctl = "ok"

(***************************************************************************)
(* C13.  For every operand byte b and every value of X (respectively Y),   *)
(* ZeroPage_X (respectively ZeroPage_Y) resolution yields (b + X) mod 256  *)
(* (respectively (b + Y) mod 256), always in 0x0000-0x00FF: base 0xFF with *)
(* X = 2 yields 0x0001, not 0x0101.                                        *)
(***************************************************************************)
\* get_operand_address has been applied in the given mode
Resolved(mode) == call.fn = "get_operand_address" /\ call.done /\ call.mode = mode
\* the operand byte, at the program counter
Operand == Get(memory, program_counter)

C13_ZeroPageIndexedWraps ==
    /\ Resolved("ZeroPage_X") =>
          /\ call.address = Ok((Operand + register_x) % 256)
          /\ call.address.val \in 0..255
          /\ (Operand = \hFF /\ register_x = 2) => call.address.val = \h0001
    /\ Resolved("ZeroPage_Y") =>
          /\ call.address = Ok((Operand + register_y) % 256)
          /\ call.address.val \in 0..255

\* base 0xFF with X = 2
C13_Witness ==
    /\ Resolved("ZeroPage_X")
    /\ Operand = \hFF
    /\ register_x = 2
    /\ call.address = Ok(1)

(***************************************************************************)
(* C19.  Indirect_X resolution with operand byte b yields the              *)
(* little-endian word whose low byte is at zero-page address               *)
(* p = (b + X) mod 256 and whose high byte is at (p + 1) mod 256: with     *)
(* p = 0xFF the high byte is read from 0x0000, not 0x0100.                 *)
(***************************************************************************)
C19_IndirectX ==
    Resolved("Indirect_X") =>
        LET p == (Operand + register_x) % 256
        IN  call.address = Ok(Get(memory, (p + 1) % 256) * 256 + Get(memory, p))

\* p = 0xFF with X # 0, and the cells 0x0000 and 0x0100 differ
C19_Witness ==
    /\ Resolved("Indirect_X")
    /\ register_x = 2
    /\ (Operand + register_x) % 256 = \hFF
    /\ Get(memory, \h0000) # Get(memory, \h0100)
    /\ call.address = Ok(Get(memory, \h0000) * 256 + Get(memory, \hFF))

(***************************************************************************)
(* C20.  Indirect_Y resolution with operand byte b reads the little-endian *)
(* word w from zero-page addresses b and (b + 1) mod 256, adding no index  *)
(* to b, and yields (w + Y) mod 65536.                                     *)
(***************************************************************************)
C20_IndirectY ==
    Resolved("Indirect_Y") =>
        LET w == Get(memory, (Operand + 1) % 256) * 256 + Get(memory, Operand)
        IN  call.address = Ok((w + register_y) % 65536)

\* the pointer 0xFFFF at 0x40, 0x41 with Y = 1 and X # 0: the sum wraps to 0
C20_Witness ==
    /\ Resolved("Indirect_Y")
    /\ Operand = \h40
    /\ register_x = 2
    /\ register_y = 1
    /\ call.address = Ok(0)

(***************************************************************************)
(* C14.  The picture-unit address latch alternates strictly high, low,     *)
(* high, low: starting from a new or reset latch, after any sequence of k  *)
(* writes it expects the high byte exactly when k is even, every pair of   *)
(* writes (h, l) yields get() = ((h & 0x3F) << 8) | l (0x20 then 0x00      *)
(* gives 0x2000), and a third write replaces the high byte.                *)
(***************************************************************************)
\* the update calls since the latch was new or reset
Updates == Cardinality({i \in DOMAIN latch_log : latch_log[i].op = "update"})
\* the last n calls of the log are update calls
EndsWithUpdates(n) ==
    /\ Len(latch_log) >= n
    /\ \A i \in (Len(latch_log) - n + 1)..Len(latch_log) : latch_log[i].op = "update"
\* the byte written by the update call that is j calls before the last
Written(j) == latch_log[Len(latch_log) - j].arg
\* the address made of the high byte h, masked to six bits, and the low byte l
Address14(h, l) == BitOr(BitAnd(h, \h3F) * 256, l)

C14_LatchAlternates ==
    /\ addr_reg.hi_ptr <=> Updates % 2 = 0
    /\ (EndsWithUpdates(2) /\ Updates % 2 = 0) =>
          /\ AddressRegister_get(addr_reg) = Address14(Written(1), Written(0))
          /\ (Written(1) = \h20 /\ Written(0) = \h00) =>
                AddressRegister_get(addr_reg) = \h2000
    /\ (EndsWithUpdates(3) /\ Updates % 2 = 1) =>
          AddressRegister_get(addr_reg) = Address14(Written(0), Written(1))

\* 0xFF, 0x20, 0x7F written to a reset latch: the third write replaced the
\* high byte, masked, and the latch expects the low byte
C14_Witness ==
    /\ ppu_calls = 4
    /\ latch_log = <<[op |-> "update", arg |-> \hFF], [op |-> "update", arg |-> \h20],
                     [op |-> "update", arg |-> \h7F]>>
    /\ AddressRegister_get(addr_reg) = \h3F20
    /\ ~addr_reg.hi_ptr

(***************************************************************************)
(* C15.  The latch value is always in the 14-bit range: in every state     *)
(* reachable from a new picture unit by any sequence of address-latch      *)
(* writes, control writes and data-port reads and writes (which            *)
(* auto-increment), get() <= 0x3FFF.                                       *)
(***************************************************************************)
C15_LatchIn14Bits == AddressRegister_get(addr_reg) <= \h3FFF

(***************************************************************************)
(* C16.  run returns exactly when the fetched opcode is 0x00: it never     *)
(* returns after any other opcode, and on return A, X, Y, status and       *)
(* memory are those left by the last executed instruction, with the        *)
(* program counter one past the 0x00 byte.                                 *)
(***************************************************************************)
C16_RunReturnsAtBrk ==
    [][ctl = "running" =>
          /\ ctl' = "idle" <=> Fetched = BrkOpcode
          /\ ctl' = "idle" =>
                /\ register_a' = register_a
                /\ register_x' = register_x
                /\ register_y' = register_y
                /\ status' = status
                /\ memory' = memory
                /\ program_counter' = program_counter + 1]_vars

\* run has returned from the 0x00 at 0x8006, after LDA #$55, STA $10, LDA $10
C16_Witness ==
    /\ ctl = "idle"
    /\ runs > 0
    /\ history[Len(history)] = "run"
    /\ program_counter = ProgramBase + 7
    /\ Get(memory, program_counter - 1) = BrkOpcode
    /\ Get(memory, \h10) = \h55
    /\ register_a = \h55

OperandLength(opscode) ==
    CASE opscode \in {TaxOpcode, InxOpcode} -> 0
      [] OperandMode(opscode) \in
            {"Immediate", "ZeroPage", "ZeroPage_X", "Indirect_X", "Indirect_Y"} -> 1
      [] OperandMode(opscode) \in {"Absolute", "Absolute_X", "Absolute_Y"} -> 2

\* the address the instruction at the program counter resolves when the
\* program counter is one past its opcode
OperandAddress ==
    get_operand_address([Cpu EXCEPT !.program_counter = program_counter + 1],
                        OperandMode(Fetched))

\* the step executes an implemented, non-halting instruction to its end
Executes == ctl = "running" /\ Fetched \in Implemented \ {BrkOpcode} /\ ctl' = "running"

C18_PcAdvances ==
    [][Executes =>
          /\ program_counter' = program_counter + 1 + OperandLength(Fetched)
          /\ Fetched \in LdaOpcodes =>
                register_a' = Get(memory, OperandAddress.val)
          /\ Fetched \in StaOpcodes =>
                memory' = Put(memory, OperandAddress.val, register_a)
          /\ Fetched = \hA9 => register_a' = Get(memory, program_counter + 1)
          /\ Fetched = \h8D =>
                memory' = Put(memory,
                              Get(memory, program_counter + 2) * 256
                                + Get(memory, program_counter + 1),
                              register_a)]_vars

\* the whole of AllArmsProgram has been executed: every arm once
C18_Witness ==
    /\ ctl = "idle"
    /\ runs = 1
    /\ history = <<"run">>
    /\ \A i \in 1..Len(AllArmsProgram) : Get(memory, ProgramBase + i - 1) = AllArmsProgram[i]
    /\ program_counter = ProgramBase + Len(AllArmsProgram)

(***************************************************************************)
(* C21.  Store-accumulator in every implemented mode (0x85, 0x95, 0x8D,    *)
(* 0x9D, 0x99, 0x81, 0x91) changes exactly one memory byte, the one at the *)
(* resolved address, to the accumulator's value, and leaves the status     *)
(* byte, A, X and Y unchanged.                                             *)
(***************************************************************************)
C21_StaFrame ==
    [][(Executes /\ Fetched \in StaOpcodes) =>
          /\ memory' = Put(memory, OperandAddress.val, register_a)
          /\ \A i \in (DOMAIN memory \cup DOMAIN memory') \ {OperandAddress.val} :
                Get(memory', i) = Get(memory, i)
          /\ status' = status
          /\ register_a' = register_a
          /\ register_x' = register_x
          /\ register_y' = register_y]_vars

\* LDA #$55, STA $10 have been executed from a status byte with every bit
\* set: the cell 0x10 holds 0x55 and the status is as LDA left it
C21_Witness ==
    /\ ctl = "running"
    /\ program_counter = ProgramBase + 4
    /\ Get(memory, ProgramBase + 2) = \h85
    /\ Get(memory, \h10) = \h55
    /\ register_a = \h55
    /\ status = \h7D

(***************************************************************************)
(* C22.  For every latch value and every step in 0..255,                   *)
(* AddressRegister::increment(step) leaves get() equal to                  *)
(* (old get() + step) mod 65536: the low byte wraps modulo 256 and the     *)
(* high byte gains exactly one carry (modulo 256) iff the low byte         *)
(* wrapped.                                                                *)
(***************************************************************************)
Incremented == call.fn = "increment" /\ call.done

C22_IncrementAdds ==
    Incremented =>
        LET hi == call.before.value[1]
            lo == call.before.value[2]
            wrapped == lo + call.inc >= 256
        IN  /\ AddressRegister_get(addr_reg)
                  = (AddressRegister_get(call.before) + call.inc) % 65536
            /\ addr_reg.value[2] = (lo + call.inc) % 256
            /\ addr_reg.value[1] = IF wrapped THEN (hi + 1) % 256 ELSE hi
            /\ addr_reg.hi_ptr = call.before.hi_ptr

\* 0xFFFF incremented by 32: both bytes wrap
C22_Witness ==
    /\ Incremented
    /\ call.before.value = <<\hFF, \hFF>>
    /\ call.inc = 32
    /\ AddressRegister_get(addr_reg) = \h001F

(***************************************************************************)
(* C23.  mem_write_u16(a, v) followed by mem_read_u16(a) returns v for     *)
(* every 16-bit v and every address a at which both bytes are addressable, *)
(* with the low byte of v stored at a and the high byte at a + 1.          *)
(***************************************************************************)
WordWritten == call.fn = "mem_write_u16" /\ call.done

C23_WordRoundTrip ==
    (WordWritten /\ InBounds(call.addr) /\ InBounds(call.addr + 1)) =>
        /\ ctl # "panicked"
        /\ call.read = Ok(call.value)
        /\ Get(memory, call.addr) = call.value % 256
        /\ Get(memory, call.addr + 1) = call.value \div 256

\* 0x1234 at the last address with both cells: 0x34 at 0xFFFD, 0x12 at 0xFFFE
C23_Witness ==
    /\ WordWritten
    /\ call.addr = \hFFFD
    /\ call.value = \h1234
    /\ call.read = Ok(\h1234)
    /\ Get(memory, \hFFFD) = \h34
    /\ Get(memory, \hFFFE) = \h12

(***************************************************************************)
(* C24.  For every picture-memory address in 0x2000-0x3EFF,                *)
(* mirror_vram_addr returns an index below 2048 into the 2 KiB vram with   *)
(* the same offset within the name table; under Horizontal mirroring name  *)
(* tables 0 and 1 resolve to the same cells and 2 and 3 to the same        *)
(* (other) cells, under Vertical mirroring tables 0 and 2 resolve to the   *)
(* same cells and 1 and 3 to the same (other) cells.                       *)
(***************************************************************************)
Mirrored == call.fn = "mirror_vram_addr" /\ call.done
\* the name table 0..3 of a picture-memory address, 0x3000-0x3EFF being the
\* mirror of 0x2000-0x2EFF
NameTable(addr) == ((addr - \h2000) % \h1000) \div \h400
\* the half of vram that holds a name table under a mirroring mode
VramBank(mirror, table) == IF mirror = "Horizontal" THEN table \div 2 ELSE table % 2

C24_MirrorVramAddr ==
    (Mirrored /\ call.addr \in \h2000..\h3EFF) =>
        /\ call.index.ok
        /\ call.index.val \in 0..2047
        /\ call.index.val % \h400 = call.addr % \h400
        /\ call.index.val \div \h400 = VramBank(mirroring, NameTable(call.addr))

\* the last address of the range, in the mirror of name table 3, under
\* Horizontal mirroring: offset 0x2FF of the second half of vram
C24_Witness ==
    /\ Mirrored
    /\ mirroring = "Horizontal"
    /\ call.addr = \h3EFF
    /\ call.index = Ok(\h6FF)

(***************************************************************************)
(* C25.  Through the PPU data port, addresses 0x3F10, 0x3F14, 0x3F18 and   *)
(* 0x3F1C are mirrors of 0x3F00, 0x3F04, 0x3F08 and 0x3F0C: a value        *)
(* written by write_to_data_reg at either address of a pair is the value   *)
(* read_data returns at the other address of that pair.                    *)
(***************************************************************************)
PalettePair(a, b) ==
    \E k \in {\h0, \h4, \h8, \hC} : a # b /\ {a, b} = {\h3F00 + k, \h3F10 + k}

\* read_data has returned at an address whose pair holds the most recent
\* write through the data port
ReadAtPair ==
    /\ ppu_last.op = "read_data"
    /\ ppu_ctl = "ok"
    /\ PalettePair(ppu_last.wrote.addr, ppu_last.addr)

C25_PaletteMirrors == ReadAtPair => ppu_last.value = ppu_last.wrote.value

(***************************************************************************)
(* C26.  Every call to run, from any memory contents and any starting      *)
(* program counter, ends after finitely many instructions (by the 0x00     *)
(* halt or by a fatal condition): every implemented non-halting            *)
(* instruction strictly increases the program counter, also when a store   *)
(* overwrites program bytes, so the loop cannot run forever.               *)
(***************************************************************************)
C26_RunTerminates ==
    /\ [][Executes => program_counter' > program_counter]_vars
    /\ (ctl = "running") ~> (ctl # "running")

\* run has returned from the program whose store replaced the halt at
\* 0x8005 by INX
C26_Witness ==
    /\ ctl = "idle"
    /\ runs > 0
    /\ Get(memory, ProgramBase + 2) = \h8D
    /\ Get(memory, ProgramBase + 5) = InxOpcode
    /\ register_a = \hE8
    /\ program_counter = ProgramBase + 7

TypeOK ==
    /\ register_a \in Byte
    /\ register_x \in Byte
    /\ register_y \in Byte
    /\ status \in Byte
    /\ program_counter \in 0..65535
    /\ DOMAIN memory \subseteq 0..(MemLen - 1)
    /\ \A i \in DOMAIN memory : memory[i] \in 1..255
    /\ ctl \in {"idle", "running", "panicked"}
    /\ DOMAIN cpu_vram \subseteq 0..2047
    /\ DOMAIN pallete_table \subseteq 0..(PalleteLen - 1)
    /\ DOMAIN vram \subseteq 0..(VramLen - 1)
    /\ addr_reg.value[1] \in Byte /\ addr_reg.value[2] \in Byte
    /\ control_reg \in Byte
    /\ internal_data_buffer \in Byte
    /\ ppu_ctl \in {"ok", "panicked"}

====
